---- MODULE Spec2Model ----
(***************************************************************************)
(* A model of obo (src/obo/obo.py), a command-line client of an            *)
(* S3-compatible object store.                                             *)
(*                                                                         *)
(* Two parts:                                                              *)
(*   - the response serializer (append_attr_value .. OboBucketStatus),     *)
(*     pure functions over Python values, exercised by SpecEnc;            *)
(*   - the command layer (OboCommand, OboBucketCommand,                    *)
(*     OboBucketLifecycleCommand, OboBucket, OboObject) running one        *)
(*     invocation per step against a storage service, exercised by Spec.   *)
(***************************************************************************)
EXTENDS Integers, Sequences, FiniteSets, TLC

VARIABLES
    enc_in,     \* serializer: the value handed to json.dumps
    enc_cls,    \* serializer: the encoder class handed to json.dumps
    enc_out,    \* serializer: the JSON document, or the error raised
    buckets,    \* service: the buckets that exist
    lifecycle,  \* service: each bucket's lifecycle configuration
    cmd,        \* invocation: the command words of sys.argv
    args,       \* invocation: the parsed options of the handler that ran
    reqs,       \* invocation: the calls made on the storage client, in order
    printed,    \* invocation: what was printed, in order
    doc,        \* invocation: the JSON document printed, if one was
    exit,       \* invocation: the exit status of the process
    exc,        \* invocation: the exception that ended it, if one did
    open_files, \* invocation: the files still open when the operation ends
    prev_add    \* history: the options of the run before, if it added a rule

encvars == <<enc_in, enc_cls, enc_out>>
svcvars == <<buckets, lifecycle>>
runvars == <<cmd, args, reqs, printed, doc, exit, exc, open_files, prev_add>>
vars == <<enc_in, enc_cls, enc_out, buckets, lifecycle, cmd, args, reqs,
          printed, doc, exit, exc, open_files, prev_add>>

(***************************************************************************)
(* Python values.  t is the type, s the text of a scalar as a sequence of  *)
(* string pieces (a checksum is kept character by character so that it can *)
(* be sliced), o the attributes of an object or the items of a list.       *)
(***************************************************************************)
Flat(t, s) == [t |-> t, s |-> s, o |-> <<>>]
PyNone == Flat("none", <<>>)
Absent == Flat("absent", <<>>)      \* getattr(k, attr) raises
StrV(s) == Flat("str", s)
IntV(digits) == Flat("int", <<digits>>)
BoolV(b) == Flat("bool", IF b THEN <<"True">> ELSE <<"False">>)
DictV(items) == Flat("dict", items)
ListV(items) == [t |-> "list", s |-> <<>>, o |-> items]
ObjV(cls, attrs) == [t |-> "obj", s |-> <<cls>>, o |-> attrs]

ClassOf(v) == IF v.t = "obj" THEN v.s[1] ELSE v.t

\* Python truth value of attrv (`if attrv`).
Truthy(v) ==
    CASE v.t = "none" -> FALSE
      [] v.t = "str" -> v.s # <<>>
      [] v.t = "int" -> v.s # <<"0">>
      [] v.t = "bool" -> v.s = <<"True">>
      [] v.t = "dict" -> v.s # <<>>
      [] v.t = "list" -> v.o # <<>>
      [] OTHER -> TRUE

\* str(attrv), as a sequence of pieces; its length is zero only for ''.
StrOf(v) ==
    CASE v.t = "none" -> <<"None">>
      [] v.t = "str" -> v.s
      [] v.t = "int" -> v.s
      [] v.t = "bool" -> v.s
      [] v.t = "dict" -> <<"{">> \o v.s \o <<"}">>
      [] v.t = "list" -> <<"[">> \o v.s \o <<"]">>
      [] OTHER -> <<"<">> \o v.s \o <<">">>

HasAttr(k, attr) == attr \in DOMAIN k.o /\ k.o[attr].t # "absent"
GetAttr(k, attr) == k.o[attr]

EmptyDict == <<>>
SetItem(d, key, v) == (key :> v) @@ d

(***************************************************************************)
(* Attribute extraction (obo.py 29-45).                                    *)
(***************************************************************************)
append_attr_value(d, attr, attrv) ==
    IF Truthy(attrv) /\ Len(StrOf(attrv)) > 0 THEN SetItem(d, attr, attrv) ELSE d

append_attr(d, k, attr) ==
    IF ~HasAttr(k, attr) THEN d ELSE append_attr_value(d, attr, GetAttr(k, attr))

RECURSIVE get_attrs_loop(_, _, _)
get_attrs_loop(d, k, attrs) ==
    IF attrs = <<>> THEN d
    ELSE get_attrs_loop(append_attr(d, k, Head(attrs)), k, Tail(attrs))

get_attrs(k, attrs) == get_attrs_loop(EmptyDict, k, attrs)

(***************************************************************************)
(* The per-variant encoders (obo.py 55-135).  A call of default() either   *)
(* returns a dict or raises.                                               *)
(***************************************************************************)
Ok(d) == [exc |-> "none", d |-> d]
Raise(e) == [exc |-> e, d |-> EmptyDict]

KeyAttrs ==
    <<"name", "size", "last_modified", "metadata", "cache_control",
      "content_type", "content_disposition", "content_language",
      "owner", "storage_class", "md5", "version_id", "encrypted",
      "delete_marker", "expiry_date", "VersionedEpoch">>
DeleteMarkerAttrs == <<"name", "version_id", "last_modified", "owner">>
UserAttrs == <<"id", "display_name">>
BucketAttrs == <<"name", "creation_date">>
RuleAttrs == <<"id", "prefix", "status", "expiration", "transition">>
ExpirationAttrs == <<"days", "date">>
TransitionAttrs == <<"days", "date", "storage_class">>
RedirectAttrs ==
    <<"hostname", "protocol", "replace_key", "replace_key_prefix",
      "http_redirect_code">>
ConditionAttrs == <<"key_prefix", "http_error_code">>
RedirectLocationAttrs == <<"hostname", "protocol">>
RoutingRuleAttrs == <<"condition", "redirect">>
WebsiteConfigurationAttrs ==
    <<"suffix", "error_key", "redirect_all_requests_to", "routing_rules">>

\* Python's s[1:-1] on a string held character by character.
Slice1m1(s) == IF Len(s) < 2 THEN <<>> ELSE SubSeq(s, 2, Len(s) - 1)

\* k.etag[1:-1]: a missing attribute or a None cannot be sliced.
EtagOf(k) ==
    IF ~HasAttr(k, "etag") THEN Raise("AttributeError")
    ELSE IF GetAttr(k, "etag").t # "str" THEN Raise("TypeError")
    ELSE Ok(SetItem(EmptyDict, "etag", StrV(Slice1m1(GetAttr(k, "etag").s))))

KeyJSONEncoder_default(k, versioned) ==
    LET d == get_attrs(k, KeyAttrs)
        e == EtagOf(k)
    IN  IF e.exc # "none" THEN e
        ELSE IF ~versioned THEN Ok(e.d @@ d)
        ELSE IF ~HasAttr(k, "is_latest") THEN Raise("AttributeError")
        ELSE Ok(SetItem(e.d @@ d, "is_latest", GetAttr(k, "is_latest")))

DeleteMarkerJSONEncoder_default(k) ==
    LET d == SetItem(get_attrs(k, DeleteMarkerAttrs), "delete_marker", BoolV(TRUE))
    IN  IF ~HasAttr(k, "is_latest") THEN Raise("AttributeError")
        ELSE Ok(SetItem(d, "is_latest", GetAttr(k, "is_latest")))

UserJSONEncoder_default(k) == Ok(get_attrs(k, UserAttrs))
BucketJSONEncoder_default(k) == Ok(get_attrs(k, BucketAttrs))
BucketLifecycleRuleJSONEncoder_default(k) == Ok(get_attrs(k, RuleAttrs))
BucketLifecycleExpirationJSONEncoder_default(k) == Ok(get_attrs(k, ExpirationAttrs))
BucketLifecycleTransitionJSONEncoder_default(k) == Ok(get_attrs(k, TransitionAttrs))
WebsiteRedirectJSONEncoder_default(k) == Ok(get_attrs(k, RedirectAttrs))
WebsiteConditionJSONEncoder_default(k) == Ok(get_attrs(k, ConditionAttrs))
WebsiteRedirectLocationJSONEncoder_default(k) == Ok(get_attrs(k, RedirectLocationAttrs))
WebsiteRoutingRuleJSONEncoder_default(k) == Ok(get_attrs(k, RoutingRuleAttrs))
WebsiteConfigurationJSONEncoder_default(k) == Ok(get_attrs(k, WebsiteConfigurationAttrs))

\* A prefix marker encoded by the rule for buckets.
PrefixLambda_as_bucket(x) == BucketJSONEncoder_default(x)

\* (lambda x: {'prefix': x.name})(obj)
PrefixLambda(x) ==
    IF ~HasAttr(x, "name") THEN Raise("AttributeError")
    ELSE Ok(SetItem(EmptyDict, "prefix", GetAttr(x, "name")))

\* A fallback that encodes any object as an empty JSON object.
JSONEncoder_default_generic(obj) == Ok(EmptyDict)

\* json.JSONEncoder.default(self, obj): the base class raises TypeError.
JSONEncoder_default(obj) == Raise("TypeError")

(***************************************************************************)
(* The dispatchers (obo.py 137-183).  None of the boto classes tested      *)
(* derives from another, so the order of the isinstance tests is the       *)
(* order of the cases.                                                     *)
(***************************************************************************)
BotoJSONEncoder_default(obj) ==
    CASE ClassOf(obj) = "Key" -> KeyJSONEncoder_default(obj, FALSE)
      [] ClassOf(obj) = "DeleteMarker" -> DeleteMarkerJSONEncoder_default(obj)
      [] ClassOf(obj) = "User" -> UserJSONEncoder_default(obj)
      [] ClassOf(obj) = "Prefix" -> PrefixLambda(obj)
      [] ClassOf(obj) = "Bucket" -> BucketJSONEncoder_default(obj)
      [] ClassOf(obj) = "Rule" -> BucketLifecycleRuleJSONEncoder_default(obj)
      [] ClassOf(obj) = "Expiration" -> BucketLifecycleExpirationJSONEncoder_default(obj)
      [] ClassOf(obj) = "Transition" -> BucketLifecycleTransitionJSONEncoder_default(obj)
      [] ClassOf(obj) = "Redirect" -> WebsiteRedirectJSONEncoder_default(obj)
      [] ClassOf(obj) = "Condition" -> WebsiteConditionJSONEncoder_default(obj)
      [] ClassOf(obj) = "RedirectLocation" -> WebsiteRedirectLocationJSONEncoder_default(obj)
      [] ClassOf(obj) = "RoutingRule" -> WebsiteRoutingRuleJSONEncoder_default(obj)
      [] ClassOf(obj) = "WebsiteConfiguration" -> WebsiteConfigurationJSONEncoder_default(obj)
      [] OTHER -> JSONEncoder_default(obj)

BotoJSONEncoderListBucketVersioned_default(obj) ==
    IF ClassOf(obj) = "Key" THEN KeyJSONEncoder_default(obj, TRUE)
    ELSE BotoJSONEncoder_default(obj)

\* k.get_versioning_status() is a request of its own; its answer is held
\* on the bucket under the name of the call.
OboBucketStatus_default(k) ==
    IF ClassOf(k) = "Bucket"
    THEN IF ~HasAttr(k, "name") THEN Raise("AttributeError")
         ELSE IF ~HasAttr(k, "get_versioning_status()") THEN Raise("S3ResponseError")
         ELSE Ok(append_attr_value(SetItem(EmptyDict, "name", GetAttr(k, "name")),
                                   "versioning_status",
                                   GetAttr(k, "get_versioning_status()")))
    ELSE JSONEncoder_default(k)

\* json.dumps calls cls.default on every value it cannot encode itself.
EncoderDefault(cls, obj) ==
    CASE cls = "BotoJSONEncoder" -> BotoJSONEncoder_default(obj)
      [] cls = "BotoJSONEncoderListBucketVersioned" ->
            BotoJSONEncoderListBucketVersioned_default(obj)
      [] cls = "OboBucketStatus" -> OboBucketStatus_default(obj)

(***************************************************************************)
(* JSON documents: j is the JSON type, s the text of a scalar, m the       *)
(* members of an object (by key) or the items of an array (by position).   *)
(* A document whose encoding raised is [j |-> "error", s |-> <<exc>>].     *)
(***************************************************************************)
JV(j, s, m) == [j |-> j, s |-> s, m |-> m]
JErr(e) == JV("error", <<e>>, <<>>)

FirstError(m) == CHOOSE x \in {m[i] : i \in DOMAIN m} : x.j = "error"
Collect(j, m) ==
    IF \E i \in DOMAIN m : m[i].j = "error" THEN FirstError(m) ELSE JV(j, <<>>, m)

RECURSIVE json_dumps(_, _)
json_dumps(v, cls) ==
    CASE v.t = "none" -> JV("null", <<>>, <<>>)
      [] v.t = "str" -> JV("string", v.s, <<>>)
      [] v.t = "int" -> JV("number", v.s, <<>>)
      [] v.t = "bool" ->
            JV("boolean", IF v.s = <<"True">> THEN <<"true">> ELSE <<"false">>, <<>>)
      [] v.t = "dict" -> JV("object", v.s, <<>>)
      [] v.t = "list" ->
            Collect("array", [i \in 1..Len(v.o) |-> json_dumps(v.o[i], cls)])
      [] OTHER ->
            LET r == EncoderDefault(cls, v)
            IN  IF r.exc # "none" THEN JErr(r.exc)
                ELSE Collect("object", [key \in DOMAIN r.d |-> json_dumps(r.d[key], cls)])

dump_json(o, cls) == json_dumps(o, cls)

(***************************************************************************)
(* The values the serializer is exercised on.                              *)
(***************************************************************************)
MaxList == 2

Range(seq) == {seq[i] : i \in DOMAIN seq}
SeqsUpTo(S, n) == UNION {[1..k -> S] : k \in 0..n}

Quote == "\""
\* What the storage client leaves in an attribute: nothing, None, a
\* string, and for some attributes a number, a flag or a dictionary.
FlatVals(attr) ==
    {PyNone, Absent, StrV(<<>>), StrV(<<"x">>)}
    \cup CASE attr = "size" -> {IntV("0"), IntV("5")}
           [] attr = "days" -> {IntV("5")}
           [] attr \in {"encrypted", "delete_marker"} -> {BoolV(FALSE), BoolV(TRUE)}
           [] attr = "metadata" -> {DictV(<<>>), DictV(<<"k:v">>)}
           [] OTHER -> {}
Backgrounds == {PyNone, StrV(<<"x">>)}

\* Attribute assignments in which one attribute takes any of its values
\* and the others share a background value.
OneOff(attrs) ==
    UNION {{[a \in Range(attrs) |-> IF a = b THEN v ELSE bg] :
                v \in FlatVals(b), bg \in Backgrounds} : b \in Range(attrs)}

Etags ==
    {PyNone, Absent, StrV(<<>>), StrV(<<Quote>>), StrV(<<Quote, Quote>>),
     StrV(<<"a", "b">>), StrV(<<Quote, "a", "b", "c", "1", "2", "3", Quote>>)}
QuotedEtag == StrV(<<Quote, "a", "b", "c", "1", "2", "3", Quote>>)

OtherObj == ObjV("Other", <<>>)
Users == {ObjV("User", at) : at \in OneOff(UserAttrs)}
SomeUser == ObjV("User", [a \in Range(UserAttrs) |-> StrV(<<"x">>)])

KeyObj(at, etag, il) == ObjV("Key", ("etag" :> etag @@ "is_latest" :> il) @@ at)
PlainKeyAttrs == [a \in Range(KeyAttrs) |-> StrV(<<"x">>)]
Keys ==
    {KeyObj(at, QuotedEtag, BoolV(il)) : at \in OneOff(KeyAttrs), il \in BOOLEAN}
    \cup {KeyObj(PlainKeyAttrs, e, il) : e \in Etags, il \in {BoolV(TRUE), BoolV(FALSE), Absent}}
    \cup {KeyObj(("owner" :> u) @@ PlainKeyAttrs, QuotedEtag, BoolV(TRUE)) :
            u \in {SomeUser, OtherObj}}

DeleteMarkers ==
    {ObjV("DeleteMarker", ("is_latest" :> il) @@ at) :
        at \in OneOff(DeleteMarkerAttrs), il \in {BoolV(TRUE), BoolV(FALSE)}}

Prefixes == {ObjV("Prefix", [name |-> v]) : v \in {StrV(<<"x">>), StrV(<<>>), PyNone}}

VersioningAnswers == {DictV(<<>>), DictV(<<"Versioning:Enabled">>), Absent}
Buckets ==
    {ObjV("Bucket", ("get_versioning_status()" :> vs) @@ at) :
        at \in OneOff(BucketAttrs), vs \in VersioningAnswers}

SomeExpiration == ObjV("Expiration", [days |-> StrV(<<"30">>), date |-> PyNone])
SomeTransition ==
    ObjV("Transition", [days |-> PyNone, date |-> PyNone, storage_class |-> StrV(<<"GLACIER">>)])
PlainRuleAttrs == [a \in Range(RuleAttrs) |-> StrV(<<"x">>)]
Rules ==
    {ObjV("Rule", at) : at \in OneOff(RuleAttrs)}
    \cup {ObjV("Rule", ("expiration" :> e @@ "transition" :> t) @@ PlainRuleAttrs) :
            e \in {SomeExpiration, PyNone}, t \in {SomeTransition, PyNone, OtherObj}}

SomeCondition == ObjV("Condition", [key_prefix |-> StrV(<<"docs/">>), http_error_code |-> PyNone])
SomeRedirect == ObjV("Redirect", [a \in Range(RedirectAttrs) |-> StrV(<<"x">>)])
SomeRoutingRule == ObjV("RoutingRule", [condition |-> SomeCondition, redirect |-> SomeRedirect])
SomeLocation == ObjV("RedirectLocation", [hostname |-> StrV(<<"h">>), protocol |-> PyNone])
PlainWebsiteAttrs == [a \in Range(WebsiteConfigurationAttrs) |-> StrV(<<"x">>)]
WebsiteConfigurations ==
    {ObjV("WebsiteConfiguration", at) : at \in OneOff(WebsiteConfigurationAttrs)}
    \cup {ObjV("WebsiteConfiguration",
               ("redirect_all_requests_to" :> l @@ "routing_rules" :> ListV(rr))
                   @@ PlainWebsiteAttrs) :
            l \in {SomeLocation, PyNone}, rr \in {<<>>, <<SomeRoutingRule>>}}

SimpleObjects ==
    {ObjV("Expiration", at) : at \in OneOff(ExpirationAttrs)}
    \cup {ObjV("Transition", at) : at \in OneOff(TransitionAttrs)}
    \cup {ObjV("Redirect", at) : at \in OneOff(RedirectAttrs)}
    \cup {ObjV("Condition", at) : at \in OneOff(ConditionAttrs)}
    \cup {ObjV("RedirectLocation", at) : at \in OneOff(RedirectLocationAttrs)}
    \cup {ObjV("RoutingRule", at) : at \in OneOff(RoutingRuleAttrs)}

\* What get_all_buckets answers: buckets by name, with or without a
\* creation date.
ListedBuckets ==
    {ObjV("Bucket", [name |-> StrV(<<n>>), creation_date |-> cd]) :
        n \in {"b1", "b2"}, cd \in {StrV(<<"2015">>), PyNone}}
BucketListings == {ListV(l) : l \in SeqsUpTo(ListedBuckets, MaxList)}

\* The lists dump_json(...) is handed: the rules of a lifecycle
\* configuration, the buckets of the service.
DumpedLists ==
    {ListV(l) : l \in SeqsUpTo({ObjV("Rule", PlainRuleAttrs), SomeUser, OtherObj}, MaxList)}

\* What dump_json(...) may be handed.
SingleValues ==
    Keys \cup DeleteMarkers \cup Users \cup Prefixes \cup Buckets \cup Rules
    \cup WebsiteConfigurations \cup SimpleObjects \cup DumpedLists
    \cup BucketListings
    \cup {OtherObj, PyNone}

\* What a listing may hold: get_all_keys answers keys and prefixes,
\* get_all_versions answers keys, delete markers and prefixes.
ListedKeys ==
    {KeyObj(("size" :> sz) @@ PlainKeyAttrs, QuotedEtag, BoolV(il)) :
        sz \in {IntV("0"), IntV("5")}, il \in BOOLEAN}
ListedPrefixes == {ObjV("Prefix", [name |-> StrV(<<"x">>)])}
ListedMarkers ==
    {ObjV("DeleteMarker", ("is_latest" :> BoolV(il)) @@ [a \in Range(DeleteMarkerAttrs) |-> StrV(<<"x">>)]) :
        il \in BOOLEAN}
KeyListings == {ListV(l) : l \in SeqsUpTo(ListedKeys \cup ListedPrefixes, MaxList)}
VersionListings ==
    {ListV(l) : l \in SeqsUpTo(ListedKeys \cup ListedPrefixes \cup ListedMarkers, MaxList)}

Pending == JV("pending", <<>>, <<>>)

EncInputs ==
    {[site |-> "list_objects", list_versions |-> FALSE, v |-> l] : l \in KeyListings}
    \cup {[site |-> "list_objects", list_versions |-> TRUE, v |-> l] : l \in VersionListings}
    \cup {[site |-> "stat_bucket", list_versions |-> FALSE, v |-> b] : b \in Buckets \cup {OtherObj}}
    \cup {[site |-> "dump", list_versions |-> FALSE, v |-> x] : x \in SingleValues}

(***************************************************************************)
(* The serializer's call sites.                                            *)
(***************************************************************************)
\* A listing that never switches to the versioned encoder.
list_objects_cls_unversioned(list_versions) == "BotoJSONEncoder"

\* OboBucket.list_objects: the encoder class follows args.list_versions.
list_objects_cls(list_versions) ==
    IF list_versions THEN "BotoJSONEncoderListBucketVersioned" ELSE "BotoJSONEncoder"

EncListObjects ==
    /\ enc_in.site = "list_objects" /\ enc_out = Pending
    /\ enc_cls' = list_objects_cls(enc_in.list_versions)
    /\ enc_out' = dump_json(enc_in.v, enc_cls')
    /\ UNCHANGED <<enc_in, svcvars, runvars>>

\* OboBucket.stat without an object: json.dumps(self.bucket, cls=OboBucketStatus).
EncStatBucket ==
    /\ enc_in.site = "stat_bucket" /\ enc_out = Pending
    /\ enc_cls' = "OboBucketStatus"
    /\ enc_out' = dump_json(enc_in.v, enc_cls')
    /\ UNCHANGED <<enc_in, svcvars, runvars>>

\* print dump_json(x): stat of a key, get_website, get_lifecycle, list_buckets.
EncDump ==
    /\ enc_in.site = "dump" /\ enc_out = Pending
    /\ enc_cls' = "BotoJSONEncoder"
    /\ enc_out' = dump_json(enc_in.v, enc_cls')
    /\ UNCHANGED <<enc_in, svcvars, runvars>>

EncInit ==
    /\ enc_in \in EncInputs
    /\ enc_cls = "none"
    /\ enc_out = Pending
    /\ buckets = {}
    /\ lifecycle = <<>>
    /\ cmd = <<>>
    /\ args = <<>>
    /\ reqs = <<>>
    /\ printed = <<>>
    /\ doc = Pending
    /\ exit = 0
    /\ exc = "none"
    /\ open_files = {}
    /\ prev_add = <<>>

EncNext == EncListObjects \/ EncStatBucket \/ EncDump

SpecEnc == EncInit /\ [][EncNext]_vars

(***************************************************************************)
(* The command layer.  One step is one run of the program: sys.argv is     *)
(* chosen, _parse dispatches, the handler runs to the end of the process.  *)
(* The storage client (boto) and the service behind it are the             *)
(* environment: a call on the client is logged in reqs, and the service    *)
(* keeps the set of buckets and each bucket's lifecycle configuration.     *)
(* A fetch or a write may fail (fetch_ok, op_ok); conn.lookup is taken to  *)
(* answer truthfully.                                                      *)
(***************************************************************************)
BucketNames == {"b1"}
MaxRules == 2

NoLifecycle == [present |-> FALSE, rules |-> <<>>]
NoDoc == JV("none", <<>>, <<>>)
NoAdd == [valid |-> FALSE, args |-> <<>>]

\* A call on the storage client: its name, the bucket, its argument of
\* interest (a query string, a status, a policy) and a header.
CallH(name, bucket_name, arg, hdr) ==
    [call |-> name, bucket |-> bucket_name, arg |-> arg, hdr |-> hdr]
Call(name, bucket_name, arg) == CallH(name, bucket_name, arg, PyNone)

\* OBO.get_bucket: conn.lookup answers None (FALSE here) for a missing bucket.
get_bucket(bucket_name) == bucket_name \in buckets

\* The run before, if it added a lifecycle rule.
PrevAdd ==
    IF cmd = <<"bucket", "lifecycle", "add">> /\ exit = 0
    THEN [valid |-> TRUE, args |-> args]
    ELSE NoAdd

\* What a run leaves behind.
Done(c, a, r, p, d, x, e, f) ==
    /\ prev_add' = PrevAdd
    /\ cmd' = c
    /\ args' = a
    /\ reqs' = r
    /\ printed' = p
    /\ doc' = d
    /\ exit' = x
    /\ exc' = e
    /\ open_files' = f
    /\ UNCHANGED encvars

\* An exception that nothing catches: a traceback and exit status 1.
Uncaught(c, a, r, p, e, f) == Done(c, a, r, p, NoDoc, 1, e, f)

\* print dump_json(...): a document that cannot be encoded raises instead.
Printed(c, a, r, d) ==
    IF d.j = "error" THEN Uncaught(c, a, r, <<>>, d.s[1], {})
    ELSE Done(c, a, r, <<"json">>, d, 0, "none", {})

\* OboBucket.__init__ with need_to_exist: the lookup, and for a missing
\* bucket the message and a bare raise (a TypeError in Python 2).
OboBucket_init_reqs(bucket_name) == <<Call("lookup", bucket_name, PyNone)>>

\* A bucket wrapper that never checks that the bucket exists.
OboBucket_init_never_raises(bucket_name, need_to_exist) == FALSE

OboBucket_init_raises(bucket_name, need_to_exist) ==
    need_to_exist /\ ~get_bucket(bucket_name)
BucketMissing(c, a, bucket_name) ==
    /\ Uncaught(c, a, OboBucket_init_reqs(bucket_name),
                <<"ERROR: bucket does not exist:", bucket_name>>, "TypeError", {})
    /\ UNCHANGED svcvars

(***************************************************************************)
(* Dispatch (obo.py 368-381, 435-454, 507-541): hasattr(self, token) on    *)
(* the command object, and at the top level only the test for a leading    *)
(* underscore.  The attributes are the methods of the class, the fields    *)
(* __init__ has set when parse runs, and those every instance has.         *)
(***************************************************************************)
InstanceAttrs == {"__doc__", "__module__", "__class__", "__dict__"}
OboCommandAttrs ==
    {"_parse", "_add_rgwx_parser_args", "_get_rgwx_query_args", "list", "create",
     "stat", "get", "getacl", "put", "delete", "copy", "bucket"} \cup InstanceAttrs
OboBucketCommandAttrs ==
    {"__init__", "parse", "versioning", "website", "lifecycle", "obo", "args"}
    \cup InstanceAttrs
OboBucketLifecycleCommandAttrs ==
    {"__init__", "parse", "get", "add", "remove", "obo", "args"} \cup InstanceAttrs

\* The command words tried at each level.
Tokens ==
    {"list", "create", "stat", "get", "getacl", "put", "delete", "copy", "bucket",
     "versioning", "website", "lifecycle", "add", "remove",
     "parse", "obo", "args", "_parse", "__init__", "__doc__", "bogus"}
LeadingUnderscore(token) ==
    token \in {"_parse", "_add_rgwx_parser_args", "_get_rgwx_query_args", "__init__"}
                  \cup InstanceAttrs

OboCommand_parse(command) ==
    IF command \notin OboCommandAttrs \/ LeadingUnderscore(command)
    THEN "exit" ELSE "call"
OboBucketCommand_parse(subcommand) ==
    IF subcommand \notin OboBucketCommandAttrs THEN "exit" ELSE "call"
OboBucketLifecycleCommand_parse(subcommand) ==
    IF subcommand \notin OboBucketLifecycleCommandAttrs THEN "exit" ELSE "call"

\* cmd() on what getattr returned when that is not a handler: parse runs
\* once more and returns; __init__ lacks its arguments; the rest cannot be
\* called.
CallNonHandler(token) ==
    CASE token = "parse" -> "none"
      [] token = "obo" -> "AttributeError"
      [] OTHER -> "TypeError"

(***************************************************************************)
(* The lifecycle sub-resource (obo.py 286-328).                            *)
(***************************************************************************)
\* bucket.get_lifecycle_config(): raises when there is no configuration, or
\* when the request fails.
get_lifecycle_config(bucket_name, fetch_ok) ==
    IF fetch_ok /\ lifecycle[bucket_name].present
    THEN [raised |-> FALSE, lc |-> lifecycle[bucket_name].rules]
    ELSE [raised |-> TRUE, lc |-> <<>>]

\* boto.s3.lifecycle.Rule(id, prefix, status, expiration, transition)
Rule(rule_id, prefix, status, expiration, transition) ==
    ObjV("Rule", [id |-> rule_id, prefix |-> prefix, status |-> status,
                  expiration |-> expiration, transition |-> transition])

\* OboBucket.get_lifecycle: the document printed.
get_lifecycle(bucket_name, fetch_ok) ==
    LET f == get_lifecycle_config(bucket_name, fetch_ok)
        lc == IF f.raised THEN <<>> ELSE f.lc
    IN  dump_json(ListV(lc), "BotoJSONEncoder")

\* An add that stores every rule as Enabled whatever flag was given.
add_lifecycle_always_enabled(bucket_name, rule_id, prefix, status_bool, expiration, transition, fetch_ok) ==
    LET f == get_lifecycle_config(bucket_name, fetch_ok)
        lc == IF f.raised THEN <<>> ELSE f.lc
    IN  Append(lc, Rule(rule_id, prefix, StrV(<<"Enabled">>), expiration, transition))

\* OboBucket.add_lifecycle: the configuration handed to configure_lifecycle.
add_lifecycle(bucket_name, rule_id, prefix, status_bool, expiration, transition, fetch_ok) ==
    LET status == IF status_bool THEN StrV(<<"Enabled">>) ELSE StrV(<<"Disabled">>)
        f == get_lifecycle_config(bucket_name, fetch_ok)
        lc == IF f.raised THEN <<>> ELSE f.lc
    IN  Append(lc, Rule(rule_id, prefix, status, expiration, transition))

\* A remove that writes back whatever is left, an empty rule set included.
remove_lifecycle_writes_empty(bucket_name, rule_id, remove_all, fetch_ok) ==
    LET f == get_lifecycle_config(bucket_name, fetch_ok)
        new_lc == SelectSeq(f.lc, LAMBDA r : GetAttr(r, "id") # rule_id)
    IN  IF remove_all
        THEN [calls |-> <<"delete_lifecycle_configuration">>, lc |-> <<>>]
        ELSE IF f.raised
        THEN [calls |-> <<"get_lifecycle_config">>, lc |-> <<>>]
        ELSE [calls |-> <<"get_lifecycle_config", "configure_lifecycle">>, lc |-> new_lc]

\* OboBucket.remove_lifecycle: the calls made, and the configuration
\* written when one is.
remove_lifecycle(bucket_name, rule_id, remove_all, fetch_ok) ==
    LET f == get_lifecycle_config(bucket_name, fetch_ok)
        new_lc == SelectSeq(f.lc, LAMBDA r : GetAttr(r, "id") # rule_id)
    IN  IF remove_all
        THEN [calls |-> <<"delete_lifecycle_configuration">>, lc |-> <<>>]
        ELSE IF f.raised
        THEN [calls |-> <<"get_lifecycle_config">>, lc |-> <<>>]
        ELSE IF Len(new_lc) = 0
        THEN [calls |-> <<"get_lifecycle_config", "delete_lifecycle_configuration">>,
              lc |-> <<>>]
        ELSE [calls |-> <<"get_lifecycle_config", "configure_lifecycle">>, lc |-> new_lc]

\* The effect on the service of the last call of a lifecycle update.
LifecycleAfter(bucket_name, last_call, lc, op_ok) ==
    IF ~op_ok THEN lifecycle
    ELSE IF last_call = "configure_lifecycle"
    THEN [lifecycle EXCEPT ![bucket_name] = [present |-> TRUE, rules |-> lc]]
    ELSE IF last_call = "delete_lifecycle_configuration"
    THEN [lifecycle EXCEPT ![bucket_name] = NoLifecycle]
    ELSE lifecycle

RuleIds == {StrV(<<"r1">>), StrV(<<"r2">>)}
\* --id, --prefix, --expiration-days, --transition-days,
\* --transition-storage-class
RuleOptions ==
    {<<StrV(<<"r1">>), PyNone, PyNone, StrV(<<"7">>), PyNone>>,
     <<StrV(<<"r2">>), StrV(<<"logs/">>), StrV(<<"30">>), StrV(<<"7">>), StrV(<<"GLACIER">>)>>}
\* The narrower choice made where every command runs.
FewRuleIds == {StrV(<<"r1">>)}
FewRuleOptions ==
    {<<StrV(<<"r1">>), StrV(<<"logs/">>), StrV(<<"30">>), StrV(<<"7">>), StrV(<<"GLACIER">>)>>}

\* obo bucket lifecycle get <bucket>
bucket_lifecycle_get ==
    /\ OboCommand_parse("bucket") = "call"
    /\ OboBucketCommand_parse("lifecycle") = "call"
    /\ OboBucketLifecycleCommand_parse("get") = "call"
    /\ \E bucket_name \in BucketNames, fetch_ok \in BOOLEAN :
        LET c == <<"bucket", "lifecycle", "get">>
            a == [bucket_name |-> StrV(<<bucket_name>>)]
        IN  IF OboBucket_init_raises(bucket_name, TRUE)
            THEN BucketMissing(c, a, bucket_name)
            ELSE /\ Printed(c, a,
                            OboBucket_init_reqs(bucket_name)
                                \o <<Call("get_lifecycle_config", bucket_name, PyNone)>>,
                            get_lifecycle(bucket_name, fetch_ok))
                 /\ UNCHANGED svcvars

\* obo bucket lifecycle add <bucket> --id .. [--enable] [--disable] ..
bucket_lifecycle_add(Options) ==
    /\ OboCommand_parse("bucket") = "call"
    /\ OboBucketCommand_parse("lifecycle") = "call"
    /\ OboBucketLifecycleCommand_parse("add") = "call"
    /\ \E bucket_name \in BucketNames, o \in Options,
       enable \in BOOLEAN, disable \in BOOLEAN, fetch_ok \in BOOLEAN, op_ok \in BOOLEAN :
        LET c == <<"bucket", "lifecycle", "add">>
            a == [bucket_name |-> StrV(<<bucket_name>>), id |-> o[1], prefix |-> o[2],
                  enable |-> BoolV(enable), disable |-> BoolV(disable),
                  expiration_days |-> o[3], expiration_date |-> PyNone,
                  transition_days |-> o[4], transition_date |-> PyNone,
                  transition_storage_class |-> o[5]]
            expiration ==
                ObjV("Expiration", [days |-> a.expiration_days, date |-> a.expiration_date])
            transition ==
                IF Truthy(a.transition_storage_class)
                THEN ObjV("Transition", [days |-> a.transition_days, date |-> a.transition_date,
                                         storage_class |-> a.transition_storage_class])
                ELSE PyNone
            lc == add_lifecycle(bucket_name, a.id, a.prefix, Truthy(a.enable),
                                expiration, transition, fetch_ok)
            r == OboBucket_init_reqs(bucket_name)
                    \o <<Call("get_lifecycle_config", bucket_name, PyNone),
                         Call("configure_lifecycle", bucket_name, PyNone)>>
        IN  IF a.enable = a.disable
            THEN /\ Uncaught(c, a, <<>>, <<>>, "AssertionError", {})
                 /\ UNCHANGED svcvars
            ELSE IF OboBucket_init_raises(bucket_name, TRUE)
            THEN BucketMissing(c, a, bucket_name)
            ELSE /\ Len(lc) <= MaxRules
                 /\ IF op_ok
                    THEN Done(c, a, r, <<>>, NoDoc, 0, "none", {})
                    ELSE Uncaught(c, a, r, <<>>, "S3ResponseError", {})
                 /\ lifecycle' = LifecycleAfter(bucket_name, "configure_lifecycle", lc, op_ok)
                 /\ UNCHANGED buckets

\* obo bucket lifecycle remove <bucket> [--id ..] [--remove-all]
bucket_lifecycle_remove(Ids) ==
    /\ OboCommand_parse("bucket") = "call"
    /\ OboBucketCommand_parse("lifecycle") = "call"
    /\ OboBucketLifecycleCommand_parse("remove") = "call"
    /\ \E bucket_name \in BucketNames, rule_id \in Ids \cup {PyNone},
       remove_all \in BOOLEAN, fetch_ok \in BOOLEAN, op_ok \in BOOLEAN :
        LET c == <<"bucket", "lifecycle", "remove">>
            a == [bucket_name |-> StrV(<<bucket_name>>), id |-> rule_id,
                  remove_all |-> BoolV(remove_all)]
            w == remove_lifecycle(bucket_name, a.id, Truthy(a.remove_all), fetch_ok)
            last_call == w.calls[Len(w.calls)]
            r == OboBucket_init_reqs(bucket_name)
                    \o [i \in 1..Len(w.calls) |-> Call(w.calls[i], bucket_name, PyNone)]
        IN  IF OboBucket_init_raises(bucket_name, TRUE)
            THEN BucketMissing(c, a, bucket_name)
            ELSE /\ IF op_ok \/ last_call = "get_lifecycle_config"
                    THEN Done(c, a, r, <<>>, NoDoc, 0, "none", {})
                    ELSE Uncaught(c, a, r, <<>>, "S3ResponseError", {})
                 /\ lifecycle' = LifecycleAfter(bucket_name, last_call, w.lc, op_ok)
                 /\ UNCHANGED buckets

(***************************************************************************)
(* Buckets (obo.py 208-212, 256-257, 574-583, 645-659).                    *)
(***************************************************************************)
CannedAcls == {PyNone, StrV(<<"public-read">>)}

\* obo create <bucket>: a socket error is caught and printed, any other
\* error of the client ends the process.
create ==
    /\ OboCommand_parse("create") = "call"
    /\ \E bucket_name \in BucketNames, canned_acl \in CannedAcls,
       outcome \in {"ok", "socket.error", "S3ResponseError"} :
        LET c == <<"create">>
            a == [bucket_name |-> StrV(<<bucket_name>>), canned_acl |-> canned_acl]
            r == OboBucket_init_reqs(bucket_name)
                    \o <<Call("create_bucket", bucket_name, canned_acl)>>
        IN  /\ CASE outcome = "ok" -> Done(c, a, r, <<>>, NoDoc, 0, "none", {})
              [] outcome = "socket.error" ->
                    Done(c, a, r, <<"Had an issue connecting:">>, NoDoc, 0, "none", {})
              [] OTHER -> Uncaught(c, a, r, <<>>, outcome, {})
            /\ buckets' = IF outcome = "ok" THEN buckets \cup {bucket_name} ELSE buckets
            /\ UNCHANGED lifecycle

\* obo delete <bucket>: the bucket and what is configured on it go.
delete_bucket ==
    /\ OboCommand_parse("delete") = "call"
    /\ \E bucket_name \in BucketNames, op_ok \in BOOLEAN :
        LET c == <<"delete">>
            a == [target |-> StrV(<<bucket_name>>), version_id |-> PyNone,
                  rgwx_uid |-> PyNone, rgwx_version_id |-> PyNone,
                  rgwx_versioned_epoch |-> PyNone]
            r == OboBucket_init_reqs(bucket_name)
                    \o <<Call("delete_bucket", bucket_name, PyNone)>>
            deleted == op_ok /\ bucket_name \in buckets
        IN  /\ IF deleted
               THEN Done(c, a, r, <<>>, NoDoc, 0, "none", {})
               ELSE Uncaught(c, a, r, <<>>, "S3ResponseError", {})
            /\ buckets' = IF deleted THEN buckets \ {bucket_name} ELSE buckets
            /\ lifecycle' = IF deleted
                            THEN [lifecycle EXCEPT ![bucket_name] = NoLifecycle]
                            ELSE lifecycle

Init ==
    /\ enc_in = [site |-> "none", list_versions |-> FALSE, v |-> PyNone]
    /\ enc_cls = "none"
    /\ enc_out = Pending
    /\ buckets = {}
    /\ lifecycle = [b \in BucketNames |-> NoLifecycle]
    /\ cmd = <<>>
    /\ args = <<>>
    /\ reqs = <<>>
    /\ printed = <<>>
    /\ doc = NoDoc
    /\ exit = 0
    /\ exc = "none"
    /\ open_files = {}
    /\ prev_add = NoAdd

(***************************************************************************)
(* The lifecycle commands alone, over the wider choice of rules.           *)
(***************************************************************************)
NextLc ==
    \/ create
    \/ delete_bucket
    \/ bucket_lifecycle_get
    \/ bucket_lifecycle_add(RuleOptions)
    \/ bucket_lifecycle_remove(RuleIds)

SpecLc == Init /\ [][NextLc]_vars

(***************************************************************************)
(* Query strings (obo.py 47-53, 548-552).  A string is a sequence of       *)
(* pieces; format() puts the pieces side by side.                          *)
(***************************************************************************)

\* A join that puts the separator in front of the first pair too.
append_query_arg_always_joins(s, n, v) ==
    LET nv == StrV(<<n, "=">> \o StrOf(v))
    IN  IF ~Truthy(v) THEN s
        ELSE StrV(StrOf(s) \o <<"&">> \o nv.s)

append_query_arg(s, n, v) ==
    LET nv == StrV(<<n, "=">> \o StrOf(v))
    IN  IF ~Truthy(v) THEN s
        ELSE IF ~Truthy(s) THEN nv
        ELSE StrV(s.s \o <<"&">> \o nv.s)

get_rgwx_query_args(a) ==
    LET qa1 == append_query_arg(PyNone, "rgwx-uid", a.rgwx_uid)
        qa2 == append_query_arg(qa1, "rgwx-version-id", a.rgwx_version_id)
    IN  append_query_arg(qa2, "rgwx-versioned-epoch", a.rgwx_versioned_epoch)

\* OboObject.remove: the query string of the DELETE request.
OboObject_remove_query(query_args, version_id) ==
    append_query_arg(query_args, "versionId", version_id)

\* OboObject.copy: the x-amz-copy-source header.
OboObject_copy_source(source_bucket, source_key, version_id) ==
    LET src_str == <<"/", source_bucket, "/", source_key>>
    IN  IF Truthy(version_id) /\ version_id # StrV(<<>>)
        THEN StrV(src_str \o <<"?versionId=">> \o StrOf(version_id))
        ELSE StrV(src_str)

OptVals == {PyNone, StrV(<<>>), StrV(<<"x">>), StrV(<<"0">>)}
FewOptVals == {PyNone, StrV(<<"x">>)}
VersionIds == {PyNone, StrV(<<>>), StrV(<<"v1">>)}
FewVersionIds == {PyNone, StrV(<<"v1">>)}
FileNames == {PyNone, StrV(<<"file">>)}
KeyName == "k"

(***************************************************************************)
(* Objects (obo.py 264-284, 331-353, 598-679).                             *)
(***************************************************************************)

\* The file object is never closed by get or put: it is a local that the
\* interpreter finalizes when the last reference goes, right at the return
\* under reference counting, at some later collection otherwise.  After a
\* raise the traceback keeps the frame, and the file with it.
OpenAtReturn(f, released) == IF released THEN {} ELSE f

\* obo get <bucket>/<key> [--version-id ..] [-o file]
get ==
    /\ OboCommand_parse("get") = "call"
    /\ \E bucket_name \in BucketNames, has_key \in BOOLEAN, out_file \in FileNames,
          version_id \in FewVersionIds, op_ok \in BOOLEAN, released \in BOOLEAN :
        LET c == <<"get">>
            a == [source |-> StrV(IF has_key THEN <<bucket_name, "/", KeyName>>
                                  ELSE <<bucket_name>>),
                  version_id |-> version_id, out_file |-> out_file]
            r == OboBucket_init_reqs(bucket_name)
                    \o <<Call("get_contents_to_file", bucket_name, version_id)>>
            f == IF Truthy(out_file) THEN {"out_file"} ELSE {}
        IN  IF ~has_key
            THEN /\ Uncaught(c, a, <<>>, <<>>, "AssertionError", {})
                 /\ UNCHANGED svcvars
            ELSE IF OboBucket_init_raises(bucket_name, TRUE)
            THEN BucketMissing(c, a, bucket_name)
            ELSE /\ IF op_ok
                    THEN Done(c, a, r, <<"contents">>, NoDoc, 0, "none",
                              OpenAtReturn(f, released))
                    ELSE Uncaught(c, a, r, <<>>, "S3ResponseError", f)
                 /\ UNCHANGED svcvars

\* obo getacl <bucket>/<key> [--version-id ..]
getacl ==
    /\ OboCommand_parse("getacl") = "call"
    /\ \E bucket_name \in BucketNames, has_key \in BOOLEAN,
          version_id \in FewVersionIds, op_ok \in BOOLEAN :
        LET c == <<"getacl">>
            a == [source |-> StrV(IF has_key THEN <<bucket_name, "/", KeyName>>
                                  ELSE <<bucket_name>>),
                  version_id |-> version_id]
            r == OboBucket_init_reqs(bucket_name)
                    \o <<Call("get_acl", bucket_name, version_id)>>
        IN  IF ~has_key
            THEN /\ Uncaught(c, a, <<>>, <<>>, "AssertionError", {})
                 /\ UNCHANGED svcvars
            ELSE IF OboBucket_init_raises(bucket_name, TRUE)
            THEN BucketMissing(c, a, bucket_name)
            ELSE /\ IF op_ok
                    THEN Done(c, a, r, <<"acl">>, NoDoc, 0, "none", {})
                    ELSE Uncaught(c, a, r, <<>>, "S3ResponseError", {})
                 /\ UNCHANGED svcvars

\* obo put <bucket>/<key> [-i file] [--canned-acl ..] [--rgwx-..]
put(Vals) ==
    /\ OboCommand_parse("put") = "call"
    /\ \E bucket_name \in BucketNames, has_key \in BOOLEAN, in_file \in FileNames,
          uid \in Vals, vid \in Vals, epoch \in Vals, op_ok \in BOOLEAN,
          released \in BOOLEAN :
        LET c == <<"put">>
            a == [target |-> StrV(IF has_key THEN <<bucket_name, "/", KeyName>>
                                  ELSE <<bucket_name>>),
                  in_file |-> in_file, canned_acl |-> PyNone,
                  rgwx_uid |-> uid, rgwx_version_id |-> vid, rgwx_versioned_epoch |-> epoch]
            rgwx_query_args == get_rgwx_query_args(a)
            r == OboBucket_init_reqs(bucket_name)
                    \o <<Call("set_contents_from_file", bucket_name, rgwx_query_args)>>
            f == IF Truthy(in_file) THEN {"in_file"} ELSE {}
        IN  IF ~has_key
            THEN /\ Uncaught(c, a, <<>>, <<>>, "AssertionError", {})
                 /\ UNCHANGED svcvars
            ELSE IF OboBucket_init_raises(bucket_name, TRUE)
            THEN BucketMissing(c, a, bucket_name)
            ELSE /\ IF op_ok
                    THEN Done(c, a, r, <<>>, NoDoc, 0, "none", OpenAtReturn(f, released))
                    ELSE Uncaught(c, a, r, <<>>, "S3ResponseError", f)
                 /\ UNCHANGED svcvars

\* OboObject.__init__ looks the bucket up and keeps None for a missing one;
\* self.bucket.name then raises before make_request is reached.
OboObject_request(method, bucket_name, query_args, hdr) ==
    IF get_bucket(bucket_name)
    THEN [raised |-> FALSE,
          reqs |-> OboBucket_init_reqs(bucket_name)
                      \o <<CallH(method, bucket_name, query_args, hdr)>>]
    ELSE [raised |-> TRUE, reqs |-> OboBucket_init_reqs(bucket_name)]

\* obo delete <bucket>/<key> [--version-id ..] [--rgwx-..]
delete_object(Vals, Versions) ==
    /\ OboCommand_parse("delete") = "call"
    /\ \E bucket_name \in BucketNames, version_id \in Versions,
          uid \in Vals, vid \in Vals, epoch \in Vals, op_ok \in BOOLEAN :
        LET c == <<"delete">>
            a == [target |-> StrV(<<bucket_name, "/", KeyName>>), version_id |-> version_id,
                  rgwx_uid |-> uid, rgwx_version_id |-> vid, rgwx_versioned_epoch |-> epoch]
            rgwx_query_args == get_rgwx_query_args(a)
            q == OboObject_request("make_request DELETE", bucket_name,
                                   OboObject_remove_query(rgwx_query_args, a.version_id),
                                   PyNone)
        IN  /\ IF q.raised THEN Uncaught(c, a, q.reqs, <<>>, "AttributeError", {})
               ELSE IF op_ok THEN Done(c, a, q.reqs, <<>>, NoDoc, 0, "none", {})
               ELSE Uncaught(c, a, q.reqs, <<>>, "socket.error", {})
            /\ UNCHANGED svcvars

\* obo copy <bucket>/<key> <bucket>/<key> [--version-id ..] [--rgwx-..]
copy(Vals, Versions) ==
    /\ OboCommand_parse("copy") = "call"
    /\ \E source_bucket \in BucketNames, bucket_name \in BucketNames, has_key \in BOOLEAN,
          version_id \in Versions, uid \in Vals, vid \in Vals, epoch \in Vals,
          op_ok \in BOOLEAN :
        LET c == <<"copy">>
            a == [source |-> StrV(<<source_bucket, "/", KeyName>>),
                  target |-> StrV(IF has_key THEN <<bucket_name, "/", KeyName>>
                                  ELSE <<bucket_name>>),
                  version_id |-> version_id,
                  rgwx_uid |-> uid, rgwx_version_id |-> vid, rgwx_versioned_epoch |-> epoch]
            rgwx_query_args == get_rgwx_query_args(a)
            q == OboObject_request("make_request PUT", bucket_name, rgwx_query_args,
                                   OboObject_copy_source(source_bucket, KeyName, a.version_id))
        IN  /\ IF ~has_key THEN Uncaught(c, a, <<>>, <<>>, "IndexError", {})
               ELSE IF q.raised THEN Uncaught(c, a, q.reqs, <<>>, "AttributeError", {})
               ELSE IF op_ok THEN Done(c, a, q.reqs, <<>>, NoDoc, 0, "none", {})
               ELSE Uncaught(c, a, q.reqs, <<>>, "socket.error", {})
            /\ UNCHANGED svcvars

(***************************************************************************)
(* Query strings alone, over the wider choice of option values.            *)
(***************************************************************************)
InitQuery ==
    /\ enc_in = [site |-> "none", list_versions |-> FALSE, v |-> PyNone]
    /\ enc_cls = "none"
    /\ enc_out = Pending
    /\ buckets \in SUBSET BucketNames
    /\ lifecycle = [b \in BucketNames |-> NoLifecycle]
    /\ cmd = <<>>
    /\ args = <<>>
    /\ reqs = <<>>
    /\ printed = <<>>
    /\ doc = NoDoc
    /\ exit = 0
    /\ exc = "none"
    /\ open_files = {}
    /\ prev_add = NoAdd

\* One run of the program per behaviour: cmd is empty until it has run.
NextQuery ==
    \/ cmd = <<>> /\ put(OptVals)
    \/ cmd = <<>> /\ delete_object(OptVals, VersionIds)
    \/ cmd = <<>> /\ copy(OptVals, VersionIds)

SpecQuery == InitQuery /\ [][NextQuery]_vars

(***************************************************************************)
(* Listing and status (obo.py 197-206, 214-219, 360-361, 554-572,          *)
(* 585-596).  Objects are not kept by the model: what the service answers  *)
(* to a listing or a HEAD is chosen among a few values.                    *)
(***************************************************************************)
BucketObj(bucket_name) ==
    ObjV("Bucket", [name |-> StrV(<<bucket_name>>), creation_date |-> StrV(<<"2015">>)])
FewKeyListings == {ListV(l) : l \in SeqsUpTo(ListedPrefixes \cup {CHOOSE k \in ListedKeys : TRUE}, 1)}
FewVersionListings ==
    {ListV(l) : l \in SeqsUpTo({CHOOSE k \in ListedKeys : TRUE}
                                  \cup {CHOOSE m \in ListedMarkers : TRUE}, 1)}
FewKeys == {PyNone, CHOOSE k \in ListedKeys : TRUE}
FewVersioningAnswers == {DictV(<<>>), DictV(<<"Versioning:Enabled">>)}

\* OboService.list_buckets: every bucket, in the order returned.
list_buckets_value ==
    ListV([i \in 1..Cardinality(buckets) |-> BucketObj(CHOOSE b \in buckets : TRUE)])

\* obo list [bucket] [--list-versions]
list ==
    /\ OboCommand_parse("list") = "call"
    /\ \E bucket_name \in BucketNames \cup {"none"}, list_versions \in BOOLEAN,
          l \in FewKeyListings \cup FewVersionListings, op_ok \in BOOLEAN :
        LET c == <<"list">>
            a == [bucket_name |-> IF bucket_name = "none" THEN PyNone ELSE StrV(<<bucket_name>>),
                  list_versions |-> BoolV(list_versions)]
            call == IF list_versions THEN "get_all_versions" ELSE "get_all_keys"
        IN  /\ l \in (IF list_versions THEN FewVersionListings ELSE FewKeyListings)
            /\ IF ~Truthy(a.bucket_name)
               THEN IF op_ok
                    THEN Printed(c, a, <<Call("get_all_buckets", "none", PyNone)>>,
                                 dump_json(list_buckets_value, "BotoJSONEncoder"))
                    ELSE Uncaught(c, a, <<Call("get_all_buckets", "none", PyNone)>>, <<>>,
                                  "S3ResponseError", {})
               ELSE IF OboBucket_init_raises(bucket_name, TRUE)
               THEN Uncaught(c, a, OboBucket_init_reqs(bucket_name),
                             <<"ERROR: bucket does not exist:", bucket_name>>, "TypeError", {})
               ELSE IF op_ok
               THEN Printed(c, a,
                            OboBucket_init_reqs(bucket_name) \o <<Call(call, bucket_name, PyNone)>>,
                            dump_json(l, list_objects_cls(list_versions)))
               ELSE Uncaught(c, a,
                             OboBucket_init_reqs(bucket_name) \o <<Call(call, bucket_name, PyNone)>>,
                             <<>>, "S3ResponseError", {})
            /\ UNCHANGED svcvars

\* obo stat <bucket>[/<key>]
stat ==
    /\ OboCommand_parse("stat") = "call"
    /\ \E bucket_name \in BucketNames, has_key \in BOOLEAN, k \in FewKeys,
          vs \in FewVersioningAnswers, op_ok \in BOOLEAN :
        LET c == <<"stat">>
            a == [target |-> StrV(IF has_key THEN <<bucket_name, "/", KeyName>>
                                  ELSE <<bucket_name>>)]
            r == OboBucket_init_reqs(bucket_name)
                    \o <<Call(IF has_key THEN "get_key" ELSE "get_versioning_status",
                              bucket_name, PyNone)>>
            b == ObjV("Bucket", ("get_versioning_status()" :> vs) @@ BucketObj(bucket_name).o)
        IN  IF OboBucket_init_raises(bucket_name, TRUE)
            THEN BucketMissing(c, a, bucket_name)
            ELSE /\ IF ~op_ok THEN Uncaught(c, a, r, <<>>, "S3ResponseError", {})
                    ELSE IF has_key THEN Printed(c, a, r, dump_json(k, "BotoJSONEncoder"))
                    ELSE Printed(c, a, r, dump_json(b, "OboBucketStatus"))
                 /\ UNCHANGED svcvars

(***************************************************************************)
(* Versioning and website (obo.py 221-254, 456-498).                       *)
(***************************************************************************)

\* A set_versioning that sends the configure request a second time.
set_versioning_retried(bucket_name, status) ==
    <<Call("lookup", bucket_name, PyNone),
      Call("configure_versioning", bucket_name, BoolV(status)),
      Call("configure_versioning", bucket_name, BoolV(status))>>

\* OboBucket.set_versioning: a lookup of its own, then the call.
set_versioning(bucket_name, status) ==
    <<Call("lookup", bucket_name, PyNone),
      Call("configure_versioning", bucket_name, BoolV(status))>>

\* obo bucket versioning <bucket> [--enable] [--disable]
bucket_versioning ==
    /\ OboCommand_parse("bucket") = "call"
    /\ OboBucketCommand_parse("versioning") = "call"
    /\ \E bucket_name \in BucketNames, enable \in BOOLEAN, disable \in BOOLEAN,
          op_ok \in BOOLEAN :
        LET c == <<"bucket", "versioning">>
            a == [bucket_name |-> StrV(<<bucket_name>>),
                  enable |-> BoolV(enable), disable |-> BoolV(disable)]
            r == OboBucket_init_reqs(bucket_name)
                    \o set_versioning(bucket_name, Truthy(a.enable))
        IN  IF a.enable = a.disable
            THEN /\ Uncaught(c, a, <<>>, <<>>, "AssertionError", {})
                 /\ UNCHANGED svcvars
            ELSE IF OboBucket_init_raises(bucket_name, TRUE)
            THEN BucketMissing(c, a, bucket_name)
            ELSE /\ IF op_ok
                    THEN Done(c, a, r, <<>>, NoDoc, 0, "none", {})
                    ELSE Uncaught(c, a, r, <<>>, "S3ResponseError", {})
                 /\ UNCHANGED svcvars

\* The calls of configure_website, delete_website and get_website.
website_calls(bucket_name, mode) ==
    <<Call("lookup", bucket_name, PyNone)>>
    \o (CASE mode = "set" ->
                <<Call("get_website_configuration_obj", bucket_name, PyNone),
                  Call("set_website_configuration", bucket_name, PyNone)>>
          [] mode = "delete" ->
                <<Call("delete_website_configuration", bucket_name, PyNone)>>
          [] OTHER -> <<Call("get_website_configuration_obj", bucket_name, PyNone)>>)

\* obo bucket website <bucket> [--set | --delete | --get]
bucket_website ==
    /\ OboCommand_parse("bucket") = "call"
    /\ OboBucketCommand_parse("website") = "call"
    /\ \E bucket_name \in BucketNames, set \in BOOLEAN, delete \in BOOLEAN,
          op_ok \in BOOLEAN :
        LET c == <<"bucket", "website">>
            a == [bucket_name |-> StrV(<<bucket_name>>), set |-> BoolV(set),
                  delete |-> BoolV(delete), suffix |-> StrV(<<"index.html">>)]
            mode == IF Truthy(a.set) THEN "set" ELSE IF Truthy(a.delete) THEN "delete" ELSE "get"
            r == OboBucket_init_reqs(bucket_name) \o website_calls(bucket_name, mode)
            config == ObjV("WebsiteConfiguration",
                           [suffix |-> a.suffix, error_key |-> PyNone,
                            redirect_all_requests_to |-> PyNone, routing_rules |-> ListV(<<>>)])
        IN  IF OboBucket_init_raises(bucket_name, TRUE)
            THEN BucketMissing(c, a, bucket_name)
            ELSE /\ IF ~op_ok THEN Uncaught(c, a, r, <<>>, "S3ResponseError", {})
                    ELSE IF mode = "get" THEN Printed(c, a, r, dump_json(config, "BotoJSONEncoder"))
                    ELSE Done(c, a, r, <<>>, NoDoc, 0, "none", {})
                 /\ UNCHANGED svcvars

(***************************************************************************)
(* Command words that are no handler.                                      *)
(***************************************************************************)
Usage(c, a, what) ==
    /\ Done(c, a, <<>>, <<what, "usage">>, NoDoc, 1, "SystemExit", {})
    /\ UNCHANGED svcvars

\* cmd() on an attribute that is no handler.
NonHandler(c, a, token) ==
    /\ IF CallNonHandler(token) = "none"
       THEN Done(c, a, <<>>, <<>>, NoDoc, 0, "none", {})
       ELSE Uncaught(c, a, <<>>, <<>>, CallNonHandler(token), {})
    /\ UNCHANGED svcvars

\* obo <command>
command_unrecognized ==
    \E command \in Tokens :
        /\ OboCommand_parse(command) = "exit"
        /\ Usage(<<command>>, <<>>, "Unrecognized command:")

\* obo bucket <subcommand>
bucket_unrecognized ==
    /\ OboCommand_parse("bucket") = "call"
    /\ \E subcommand \in Tokens :
        /\ OboBucketCommand_parse(subcommand) = "exit"
        /\ Usage(<<"bucket", subcommand>>, <<>>, "Unrecognized subcommand:")

bucket_nonhandler ==
    /\ OboCommand_parse("bucket") = "call"
    /\ \E subcommand \in Tokens \ {"versioning", "website", "lifecycle"} :
        /\ OboBucketCommand_parse(subcommand) = "call"
        /\ NonHandler(<<"bucket", subcommand>>, <<>>, subcommand)

\* obo bucket lifecycle <subcommand>
lifecycle_unrecognized ==
    /\ OboCommand_parse("bucket") = "call"
    /\ OboBucketCommand_parse("lifecycle") = "call"
    /\ \E subcommand \in Tokens :
        /\ OboBucketLifecycleCommand_parse(subcommand) = "exit"
        /\ Usage(<<"bucket", "lifecycle", subcommand>>, <<>>, "Unrecognized subcommand:")

lifecycle_nonhandler ==
    /\ OboCommand_parse("bucket") = "call"
    /\ OboBucketCommand_parse("lifecycle") = "call"
    /\ \E subcommand \in Tokens \ {"get", "add", "remove"} :
        /\ OboBucketLifecycleCommand_parse(subcommand) = "call"
        /\ NonHandler(<<"bucket", "lifecycle", subcommand>>, <<>>, subcommand)

(***************************************************************************)
(* Every command, over the narrower choices.                               *)
(***************************************************************************)
Next ==
    \/ command_unrecognized
    \/ list
    \/ create
    \/ stat
    \/ get
    \/ getacl
    \/ put(FewOptVals)
    \/ delete_bucket
    \/ delete_object(FewOptVals, FewVersionIds)
    \/ copy(FewOptVals, FewVersionIds)
    \/ bucket_unrecognized
    \/ bucket_nonhandler
    \/ bucket_versioning
    \/ bucket_website
    \/ lifecycle_unrecognized
    \/ lifecycle_nonhandler
    \/ bucket_lifecycle_get
    \/ bucket_lifecycle_add(FewRuleOptions)
    \/ bucket_lifecycle_remove(FewRuleIds)

Spec == Init /\ [][Next]_vars


(***************************************************************************)
(* Properties of the serializer.                                           *)
(***************************************************************************)
Versioned == "BotoJSONEncoderListBucketVersioned"

\* The attribute is there and holds something: not None, not '', not an
\* empty container.
PresentNonEmpty(v, a) ==
    /\ HasAttr(v, a)
    /\ GetAttr(v, a).t # "none"
    /\ ~(GetAttr(v, a).t \in {"str", "dict"} /\ GetAttr(v, a).s = <<>>)
    /\ ~(GetAttr(v, a).t = "list" /\ GetAttr(v, a).o = <<>>)

\* The attributes listed for each variant.
ListedAttrs(c) ==
    CASE c = "Key" -> Range(KeyAttrs)
      [] c = "DeleteMarker" -> Range(DeleteMarkerAttrs)
      [] c = "User" -> Range(UserAttrs)
      [] c = "Bucket" -> Range(BucketAttrs)
      [] c = "Rule" -> Range(RuleAttrs)
      [] c = "Expiration" -> Range(ExpirationAttrs)
      [] c = "Transition" -> Range(TransitionAttrs)
      [] c = "Redirect" -> Range(RedirectAttrs)
      [] c = "Condition" -> Range(ConditionAttrs)
      [] c = "RedirectLocation" -> Range(RedirectLocationAttrs)
      [] c = "RoutingRule" -> Range(RoutingRuleAttrs)
      [] c = "WebsiteConfiguration" -> Range(WebsiteConfigurationAttrs)
      [] OTHER -> {}

JsonEmpty(j) == j.j = "null" \/ (j.j = "string" /\ j.s = <<>>)

\* C1: for every handled variant and every listed attribute X, the emitted
\* object has key X exactly when X is present on the source and non-empty,
\* and then with a value that is neither null nor empty.
C1_KeysExactlyPresentNonEmpty ==
    (enc_in.site = "dump" /\ enc_out.j = "object" /\ enc_in.v.t = "obj") =>
        /\ \A a \in ListedAttrs(ClassOf(enc_in.v)) :
              (a \in DOMAIN enc_out.m) <=> PresentNonEmpty(enc_in.v, a)
        /\ \A a \in ListedAttrs(ClassOf(enc_in.v)) \cap DOMAIN enc_out.m :
              ~JsonEmpty(enc_out.m[a])

RECURSIVE HasKeyAnywhere(_, _)
HasKeyAnywhere(j, key) ==
    /\ j.j \in {"object", "array"}
    /\ \/ j.j = "object" /\ key \in DOMAIN j.m
       \/ \E i \in DOMAIN j.m : HasKeyAnywhere(j.m[i], key)

\* C4: the listing is encoded in versioned mode exactly when versions were
\* asked for; outside that mode is_latest appears nowhere in the output, in
\* that mode every Key and DeleteMarker entry carries is_latest as a JSON
\* boolean.
C4_IsLatestOnlyWhenVersioned ==
    (enc_in.site = "list_objects" /\ enc_out # Pending) =>
        /\ enc_out.j = "array"
        /\ Len(enc_out.m) = Len(enc_in.v.o)
        /\ (enc_cls = Versioned) <=> enc_in.list_versions
        /\ ~enc_in.list_versions => ~HasKeyAnywhere(enc_out, "is_latest")
        /\ enc_in.list_versions =>
              \A i \in DOMAIN enc_in.v.o :
                 ClassOf(enc_in.v.o[i]) \in {"Key", "DeleteMarker"} =>
                    /\ "is_latest" \in DOMAIN enc_out.m[i].m
                    /\ enc_out.m[i].m["is_latest"] =
                          JV("boolean",
                             IF GetAttr(enc_in.v.o[i], "is_latest") = BoolV(TRUE)
                             THEN <<"true">> ELSE <<"false">>, <<>>)

\* A versioned listing with a Key and a DeleteMarker has been encoded, and
\* the same Key shape is known to the unversioned mode too.
C4_Witness ==
    /\ enc_in.site = "list_objects"
    /\ enc_in.list_versions
    /\ enc_out.j = "array"
    /\ \E i \in DOMAIN enc_in.v.o : ClassOf(enc_in.v.o[i]) = "Key"
    /\ \E i \in DOMAIN enc_in.v.o : ClassOf(enc_in.v.o[i]) = "DeleteMarker"

\* A Key whose other attributes are ordinary strings.
PlainKey(v) ==
    /\ ClassOf(v) = "Key"
    /\ \A a \in Range(KeyAttrs) : GetAttr(v, a) = StrV(<<"x">>)

\* C5: every serialized Key has an etag key whose value is the source
\* checksum without its first and last character; a checksum shorter than
\* two characters or an absent one gives the empty string.
C5_EtagStripped ==
    (enc_in.site = "dump" /\ enc_cls = "BotoJSONEncoder" /\ enc_out # Pending
        /\ PlainKey(enc_in.v)) =>
        /\ enc_out.j = "object"
        /\ "etag" \in DOMAIN enc_out.m
        /\ LET e == GetAttr(enc_in.v, "etag")
           IN  enc_out.m["etag"] =
                  JV("string",
                     IF e.t = "str" /\ Len(e.s) >= 2
                     THEN SubSeq(e.s, 2, Len(e.s) - 1) ELSE <<>>, <<>>)

\* The classes the encoder used for a value knows how to encode.
Recognised(cls, c) ==
    IF cls = "OboBucketStatus" THEN c = "Bucket"
    ELSE c \in {"Key", "DeleteMarker", "User", "Prefix", "Bucket", "Rule",
                "Expiration", "Transition", "WebsiteConfiguration",
                "RedirectLocation", "RoutingRule", "Condition", "Redirect"}

\* The value handed to the serializer is, or lists, an object of no
\* recognised variant.
MeetsUnrecognised(v, cls) ==
    \/ v.t = "obj" /\ ~Recognised(cls, ClassOf(v))
    \/ v.t = "list" /\ \E i \in DOMAIN v.o :
                          v.o[i].t = "obj" /\ ~Recognised(cls, ClassOf(v.o[i]))

\* C6: a value of no recognised variant is encoded by the fallback and the
\* document is still produced.
C6_FallbackStillProducesDocument ==
    (enc_out # Pending /\ MeetsUnrecognised(enc_in.v, enc_cls)) =>
        enc_out.j # "error"

\* C6, as the code has it: the fallback raises TypeError for a value of no
\* recognised variant, and no document is produced.
C6_FallbackRaisesTypeError ==
    (enc_out # Pending /\ MeetsUnrecognised(enc_in.v, enc_cls)) =>
        enc_out = JErr("TypeError")

\* The serializer has met an unrecognised object among recognised ones.
C6_Witness ==
    /\ enc_out = JErr("TypeError")
    /\ enc_in.v.t = "list"
    /\ \E i \in DOMAIN enc_in.v.o : enc_in.v.o[i] = OtherObj
    /\ \E i \in DOMAIN enc_in.v.o : Recognised(enc_cls, ClassOf(enc_in.v.o[i]))

(***************************************************************************)
(* Properties of the lifecycle commands.                                   *)
(***************************************************************************)
LcGet == <<"bucket", "lifecycle", "get">>
LcRemove == <<"bucket", "lifecycle", "remove">>
CallNames(r) == [i \in DOMAIN r |-> r[i].call]

\* The JSON member a submitted option becomes: none when it was not given.
Member(key, v) == IF Truthy(v) THEN key :> JV("string", v.s, <<>>) ELSE <<>>

\* The JSON rule the options of an add describe.
ExpectedRuleDoc(a) ==
    JV("object", <<>>,
       Member("id", a.id) @@ Member("prefix", a.prefix)
       @@ ("status" :> JV("string",
                          IF a.enable = BoolV(TRUE) THEN <<"Enabled">> ELSE <<"Disabled">>,
                          <<>>))
       @@ ("expiration" :> JV("object", <<>>,
                              Member("days", a.expiration_days)
                              @@ Member("date", a.expiration_date)))
       @@ (IF Truthy(a.transition_storage_class)
           THEN "transition" :> JV("object", <<>>,
                                   Member("days", a.transition_days)
                                   @@ Member("date", a.transition_date)
                                   @@ Member("storage_class", a.transition_storage_class))
           ELSE <<>>))

\* A get that ran right after a successful add on the same bucket.
GetAfterAdd ==
    /\ cmd = LcGet /\ exit = 0
    /\ prev_add.valid
    /\ prev_add.args.bucket_name = args.bucket_name

NeverEmptyRuleSet ==
    \A b \in BucketNames : lifecycle[b].present => lifecycle[b].rules # <<>>

\* This step is remove --id X on an existing bucket whose stored rules all
\* have id X.
RemovesOnlyRule ==
    /\ cmd' = LcRemove
    /\ args'.remove_all = BoolV(FALSE)
    /\ args'.bucket_name.s[1] \in buckets
    /\ lifecycle[args'.bucket_name.s[1]].present
    /\ \A i \in DOMAIN lifecycle[args'.bucket_name.s[1]].rules :
          GetAttr(lifecycle[args'.bucket_name.s[1]].rules[i], "id") = args'.id

Given(v, strict) == v # PyNone /\ (strict => v # StrV(<<>>))
PairsOf(c, a, strict) ==
    SelectSeq(<<<<"rgwx-uid", a.rgwx_uid>>,
                <<"rgwx-version-id", a.rgwx_version_id>>,
                <<"rgwx-versioned-epoch", a.rgwx_versioned_epoch>>>>
              \o (IF c = <<"delete">> THEN <<<<"versionId", a.version_id>>>> ELSE <<>>),
              LAMBDA p : Given(p[2], strict))

RECURSIVE JoinPairs(_)
JoinPairs(ps) ==
    IF ps = <<>> THEN <<>>
    ELSE LET h == <<ps[1][1], "=">> \o ps[1][2].s
         IN  IF Len(ps) = 1 THEN h ELSE h \o <<"&">> \o JoinPairs(Tail(ps))

ExpectedQuery(ps) == IF ps = <<>> THEN PyNone ELSE StrV(JoinPairs(ps))

QueryCalls == {"set_contents_from_file", "make_request DELETE", "make_request PUT"}

\* Every request of the run that carries a query string carries this one.
QueryIs(strict) ==
    \A i \in DOMAIN reqs :
        reqs[i].call \in QueryCalls =>
            reqs[i].arg = ExpectedQuery(PairsOf(cmd, args, strict))

\* C10: the query string holds one name=value pair for each option that
\* is present, none for one that is absent, joined by single "&" with
\* none leading or trailing; delete appends versionId=<id> when
\* --version-id is given.
C10_PairForEachPresentOption ==
    cmd \in {<<"put">>, <<"delete">>, <<"copy">>} => QueryIs(FALSE)

\* C10, as the code has it: an option given as the empty string counts as
\* absent.
C10_PairForEachNonEmptyOption ==
    cmd \in {<<"put">>, <<"delete">>, <<"copy">>} => QueryIs(TRUE)

\* A delete went out with all three rgwx pairs and the versionId pair.
C10_Witness ==
    /\ cmd = <<"delete">>
    /\ Len(PairsOf(cmd, args, TRUE)) = 4
    /\ \E i \in DOMAIN reqs :
          /\ reqs[i].call = "make_request DELETE"
          /\ reqs[i].arg = ExpectedQuery(PairsOf(cmd, args, TRUE))

(***************************************************************************)
(* Properties of the command line.                                         *)
(***************************************************************************)
UsagePrinted == printed # <<>> /\ printed[Len(printed)] = "usage"

\* C7: bucket versioning with neither or both of --enable and --disable
\* prints the usage text, exits non-zero and sends nothing; with exactly
\* one of them on an existing bucket it sends one request that sets the
\* state the flag names.
C7_VersioningNeedsExactlyOneFlag ==
    cmd = <<"bucket", "versioning">> =>
        /\ args.enable = args.disable =>
              UsagePrinted /\ exit # 0 /\ reqs = <<>>
        /\ (args.enable # args.disable /\ args.bucket_name.s[1] \in buckets) =>
              /\ Cardinality({i \in DOMAIN reqs : reqs[i].call = "configure_versioning"}) = 1
              /\ \A i \in DOMAIN reqs :
                    reqs[i].call = "configure_versioning" => reqs[i].arg = args.enable

DocumentedCommands ==
    {"list", "create", "stat", "get", "getacl", "put", "delete", "copy", "bucket"}
DocumentedBucketCommands == {"versioning", "lifecycle", "website"}
DocumentedLifecycleCommands == {"get", "add", "remove"}

\* The command word of the run, at any of the three levels, is not one of
\* the documented verbs.
UnknownToken ==
    \/ Len(cmd) = 1 /\ cmd[1] \notin DocumentedCommands
    \/ Len(cmd) = 2 /\ cmd[1] = "bucket" /\ cmd[2] \notin DocumentedBucketCommands
    \/ /\ Len(cmd) = 3 /\ cmd[1] = "bucket" /\ cmd[2] = "lifecycle"
       /\ cmd[3] \notin DocumentedLifecycleCommands

\* C8: an unknown command word at any level prints the usage text and
\* exits with status 1 without reaching a handler or sending a request.
C8_UnknownTokenPrintsUsage ==
    UnknownToken => UsagePrinted /\ exit = 1 /\ reqs = <<>>

\* The run is one of the operations that need their bucket to exist.
NeedsBucket ==
    \/ cmd \in {<<"stat">>, <<"get">>, <<"getacl">>, <<"put">>, <<"copy">>,
                <<"bucket", "versioning">>, <<"bucket", "website">>,
                <<"bucket", "lifecycle", "get">>, <<"bucket", "lifecycle", "add">>,
                <<"bucket", "lifecycle", "remove">>}
    \/ cmd = <<"list">> /\ args.bucket_name # PyNone
    \/ cmd = <<"delete">> /\ Len(args.target.s) > 1

TargetBucket ==
    IF "bucket_name" \in DOMAIN args THEN args.bucket_name.s[1]
    ELSE IF "target" \in DOMAIN args THEN args.target.s[1]
    ELSE args.source.s[1]

\* C9: when the bucket of such an operation does not exist, nothing but
\* the lookup is sent and the process ends with an error; the bucket
\* wrapper prints its message, the object wrapper fails on the missing
\* bucket's name.
C9_MissingBucketAborts ==
    (NeedsBucket /\ TargetBucket \notin buckets) =>
        /\ \A i \in DOMAIN reqs : reqs[i].call = "lookup"
        /\ exit = 1
        /\ exc # "none"
        /\ (reqs # <<>> /\ cmd \notin {<<"delete">>, <<"copy">>}) =>
              printed = <<"ERROR: bucket does not exist:", TargetBucket>>
        /\ (reqs # <<>> /\ cmd \in {<<"delete">>, <<"copy">>}) => exc = "AttributeError"

\* A put to a missing bucket stopped after the lookup.
C9_Witness ==
    /\ cmd = <<"put">>
    /\ TargetBucket \notin buckets
    /\ CallNames(reqs) = <<"lookup">>
    /\ printed = <<"ERROR: bucket does not exist:", TargetBucket>>
    /\ exit = 1

(***************************************************************************)
(* Properties of the file handles.                                         *)
(***************************************************************************)
\* C11: a get with -o and a put with -i end, whether the transfer
\* succeeded or the storage client raised, with the file they opened
\* closed.
C11_FileHandleReleased ==
    (cmd \in {<<"get">>, <<"put">>}) => open_files = {}

(***************************************************************************)
(* Properties of the requests of one invocation.                           *)
(***************************************************************************)
\* The run went through a handler to its end.
Succeeded == cmd # <<>> /\ ~UnknownToken /\ exit = 0

\* C12: every invocation issues exactly one request to the storage
\* service and repeats none.
C12_ExactlyOneRequest ==
    Succeeded => Len(reqs) = 1

\* The requests each command sends when nothing stops it, by name.
FullCalls ==
    CASE cmd = <<"list">> ->
            IF args.bucket_name = PyNone THEN {<<"get_all_buckets">>}
            ELSE IF args.list_versions = BoolV(TRUE)
            THEN {<<"lookup", "get_all_versions">>}
            ELSE {<<"lookup", "get_all_keys">>}
      [] cmd = <<"create">> -> {<<"lookup", "create_bucket">>}
      [] cmd = <<"stat">> ->
            IF Len(args.target.s) > 1 THEN {<<"lookup", "get_key">>}
            ELSE {<<"lookup", "get_versioning_status">>}
      [] cmd = <<"get">> -> {<<"lookup", "get_contents_to_file">>}
      [] cmd = <<"getacl">> -> {<<"lookup", "get_acl">>}
      [] cmd = <<"put">> -> {<<"lookup", "set_contents_from_file">>}
      [] cmd = <<"delete">> ->
            IF Len(args.target.s) > 1 THEN {<<"lookup", "make_request DELETE">>}
            ELSE {<<"lookup", "delete_bucket">>}
      [] cmd = <<"copy">> -> {<<"lookup", "make_request PUT">>}
      [] cmd = <<"bucket", "versioning">> ->
            {<<"lookup", "lookup", "configure_versioning">>}
      [] cmd = <<"bucket", "website">> ->
            IF args.set = BoolV(TRUE)
            THEN {<<"lookup", "lookup", "get_website_configuration_obj",
                    "set_website_configuration">>}
            ELSE IF args.delete = BoolV(TRUE)
            THEN {<<"lookup", "lookup", "delete_website_configuration">>}
            ELSE {<<"lookup", "lookup", "get_website_configuration_obj">>}
      [] cmd = <<"bucket", "lifecycle", "get">> -> {<<"lookup", "get_lifecycle_config">>}
      [] cmd = <<"bucket", "lifecycle", "add">> ->
            {<<"lookup", "get_lifecycle_config", "configure_lifecycle">>}
      [] cmd = <<"bucket", "lifecycle", "remove">> ->
            IF args.remove_all = BoolV(TRUE)
            THEN {<<"lookup", "delete_lifecycle_configuration">>}
            ELSE {<<"lookup", "get_lifecycle_config">>,
                  <<"lookup", "get_lifecycle_config", "delete_lifecycle_configuration">>,
                  <<"lookup", "get_lifecycle_config", "configure_lifecycle">>}
      [] OTHER -> {}

\* C12, as the code has it: an invocation sends the requests of its
\* command once each and in order -- the lookup of the bucket, a second
\* lookup for versioning and website, the fetch of the current
\* configuration for a lifecycle or website update, and the request that
\* performs the operation -- or stops before: with no request when the
\* command line is rejected, with the lookup alone when the bucket is
\* missing.  A run that succeeds has sent them all; none but the lookup is
\* ever sent twice.
C12_RequestsOfTheCommandOnce ==
    /\ cmd # <<>> =>
          CallNames(reqs) \in FullCalls \cup {<<>>, <<"lookup">>}
    /\ Succeeded => CallNames(reqs) \in FullCalls
    /\ \A i, j \in DOMAIN reqs :
          (i # j /\ reqs[i].call = reqs[j].call) => reqs[i].call = "lookup"

\* A website update went through with its four requests.
C12_Witness ==
    /\ cmd = <<"bucket", "website">>
    /\ exit = 0
    /\ CallNames(reqs) = <<"lookup", "lookup", "get_website_configuration_obj",
                           "set_website_configuration">>

(***************************************************************************)
(* Properties of listings.                                                 *)
(***************************************************************************)
\* The document of a common-prefix marker: the single key prefix, holding
\* the marker's name.
PrefixDoc(x) ==
    JV("object", <<>>,
       "prefix" :> (IF GetAttr(x, "name").t = "str"
                    THEN JV("string", GetAttr(x, "name").s, <<>>)
                    ELSE JV("null", <<>>, <<>>)))

\* The document of a bucket in a bucket listing: keys drawn from name and
\* creation_date only, the name that of the bucket.
IsBucketDoc(j, b) ==
    /\ j.j = "object"
    /\ DOMAIN j.m \subseteq {"name", "creation_date"}
    /\ "name" \in DOMAIN j.m
    /\ j.m["name"] = JV("string", GetAttr(b, "name").s, <<>>)

\* C13: a common-prefix marker, alone or in a listing, serializes as an
\* object with the single key prefix holding its name; a bucket listing
\* serializes as a flat array, in the order returned, of objects with keys
\* from name and creation_date only.
C13_PrefixAndBucketListingShape ==
    enc_out # Pending =>
        /\ ClassOf(enc_in.v) = "Prefix" => enc_out = PrefixDoc(enc_in.v)
        /\ (enc_in.v.t = "list"
              /\ \A i \in DOMAIN enc_in.v.o :
                    ClassOf(enc_in.v.o[i]) \in {"Prefix", "Bucket"}) =>
              enc_out.j = "array"
        /\ (enc_in.v.t = "list" /\ enc_out.j = "array") =>
              /\ Len(enc_out.m) = Len(enc_in.v.o)
              /\ \A i \in DOMAIN enc_in.v.o :
                    /\ ClassOf(enc_in.v.o[i]) = "Prefix" =>
                          enc_out.m[i] = PrefixDoc(enc_in.v.o[i])
                    /\ ClassOf(enc_in.v.o[i]) = "Bucket" =>
                          IsBucketDoc(enc_out.m[i], enc_in.v.o[i])

\* A listing with a key and a common-prefix marker has been encoded.
C13_Witness ==
    /\ enc_in.site = "list_objects"
    /\ enc_out.j = "array"
    /\ \E i, j \in DOMAIN enc_in.v.o :
          /\ ClassOf(enc_in.v.o[i]) = "Prefix"
          /\ ClassOf(enc_in.v.o[j]) = "Key"
          /\ enc_out.m[i] = PrefixDoc(enc_in.v.o[i])

(***************************************************************************)
(* Properties of the lifecycle updates.                                    *)
(***************************************************************************)
LcAdd == <<"bucket", "lifecycle", "add">>

\* The rules stored for the bucket of the step's command, before and
\* after it.
RulesBefore == lifecycle[args'.bucket_name.s[1]].rules
RulesAfter == lifecycle'[args'.bucket_name.s[1]].rules

\* This step is a lifecycle update that went through on an existing bucket.
UpdateStep(c) ==
    /\ cmd' = c
    /\ exit' = 0
    /\ args'.bucket_name.s[1] \in buckets

\* C14: add leaves every rule stored before in place and adds exactly the
\* new one, whether or not its fetch failed; remove --id X leaves the
\* rules with another id in place and in order, and writes nothing when
\* its fetch fails.
C14_UpdatesLoseNoRule ==
    [][/\ UpdateStep(LcAdd) =>
             /\ Len(RulesAfter) = Len(RulesBefore) + 1
             /\ SubSeq(RulesAfter, 1, Len(RulesBefore)) = RulesBefore
             /\ RulesAfter[Len(RulesAfter)] # PyNone
       /\ (UpdateStep(LcRemove) /\ args'.remove_all = BoolV(FALSE)) =>
             /\ SelectSeq(RulesAfter, LAMBDA r : GetAttr(r, "id") # args'.id)
                   = SelectSeq(RulesBefore, LAMBDA r : GetAttr(r, "id") # args'.id)
             /\ (\A i \in DOMAIN reqs' :
                    reqs'[i].call \notin {"configure_lifecycle",
                                          "delete_lifecycle_configuration"})
                   => lifecycle' = lifecycle]_vars

====
